---- MODULE Spec2Model ----
\* Model of app.py, a Streamlit dashboard that joins a trade log with the daily
\* Fear & Greed index.  The script is re-executed top to bottom by every session
\* on every widget interaction; the three functions decorated with
\* st.cache_data share one process-wide store.
\*
\* Time is counted in minutes since 2024-11-01 00:00 (day 0 = 2024-11-01).
\* A nullable value is a sequence: <<>> is null (NaT / NaN), <<v>> is the value v.
EXTENDS Integers, Sequences, FiniteSets, TLC

VARIABLES hist_file, fg_file, cache, phase, selected, changed, scenario, view

vars == <<hist_file, fg_file, cache, phase, selected, changed, scenario, view>>

-----------------------------------------------------------------------------
\* Generic helpers

NaT == <<>>

IsNull(x) == x = <<>>

NotNull(x) == x /= <<>>

MinutesPerDay == 24 * 60

\* Last calendar day the parser accepts in this model (day 60 = 2024-12-31).
LastDay == 60

Range(s) == {s[i] : i \in 1..Len(s)}

\* Sum of a sequence of integers.
RECURSIVE SumSeq(_)
SumSeq(s) == IF s = <<>> THEN 0 ELSE Head(s) + SumSeq(Tail(s))

Map(s, F(_)) == [i \in 1..Len(s) |-> F(s[i])]

RECURSIVE GCD(_, _)
GCD(a, b) == IF b = 0 THEN a ELSE GCD(b, a % b)

Abs(n) == IF n < 0 THEN -n ELSE n

\* What a division by zero leaves in place of a quotient (the division of two
\* Python ints raises ZeroDivisionError).
DivisionFault == <<"ZeroDivisionError">>

\* What numpy leaves in place of a quotient whose divisor is zero: the
\* division of two numpy scalars raises nothing and gives an infinity, or NaN
\* for 0/0.
Infinity == <<1, 0>>

NotANumber == <<0, 0>>

\* An exact quotient n/d in lowest terms; the code computes it in floating
\* point.
Frac(n, d) ==
    IF d = 0 THEN DivisionFault
    ELSE LET g == GCD(Abs(n), d) IN <<n \div g, d \div g>>

Zero == <<0, 1>>

\* Insertion of the pair p = <<key, element>> into the sequence of pairs s
\* sorted by key, before the first pair whose key is not smaller.
RECURSIVE InsertSorted(_, _)
InsertSorted(p, s) ==
    IF s = <<>> THEN <<p>>
    ELSE IF p[1] <= Head(s)[1] THEN <<p>> \o s
    ELSE <<Head(s)>> \o InsertSorted(p, Tail(s))

\* Stable sort of a sequence of <<key, element>> pairs by ascending key: the
\* head is inserted before the equal keys that followed it in the input.
RECURSIVE SortPairs(_)
SortPairs(s) ==
    IF s = <<>> THEN <<>>
    ELSE InsertSorted(Head(s), SortPairs(Tail(s)))

FirstN(s, n) == SubSeq(s, 1, IF Len(s) < n THEN Len(s) ELSE n)

RECURSIVE SeqsUpTo(_, _)
SeqsUpTo(S, n) ==
    IF n = 0 THEN {<<>>}
    ELSE LET shorter == SeqsUpTo(S, n - 1)
         IN shorter \cup {Append(s, x) : s \in {t \in shorter : Len(t) = n - 1}, x \in S}

-----------------------------------------------------------------------------
\* pandas operations used by load_data

\* pd.to_datetime(col, format='%d-%m-%Y %H:%M', errors='coerce'): a cell is
\* <<day, hour, minute>> as written in the file, or <<>> when blank; a cell the
\* format does not accept becomes NaT.
to_datetime(raw) ==
    IF /\ Len(raw) = 3
       /\ raw[1] \in 0..LastDay
       /\ raw[2] \in 0..23
       /\ raw[3] \in 0..59
    THEN <<raw[1] * MinutesPerDay + raw[2] * 60 + raw[3]>>
    ELSE NaT

\* Mutant of normalize: the timestamp kept as it is, time of day included.
normalize_skipped(dt) == dt

\* Series.dt.normalize(): midnight of the same day; NaT stays NaT.
normalize(dt) == IF IsNull(dt) THEN NaT ELSE <<dt[1] - (dt[1] % MinutesPerDay)>>

\* Series.dt.hour: null for NaT.
hour_of(dt) == IF IsNull(dt) THEN <<>> ELSE <<(dt[1] % MinutesPerDay) \div 60>>

day_names == <<"Monday", "Tuesday", "Wednesday", "Thursday", "Friday", "Saturday", "Sunday">>

\* Series.dt.day_name(): day 0, 2024-11-01, is a Friday; null for NaT.
day_name_of(dt) ==
    IF IsNull(dt) THEN <<>> ELSE <<day_names[(((dt[1] \div MinutesPerDay) + 4) % 7) + 1]>>

\* Series.dt.month over the model's calendar: days 0-29 are November 2024,
\* days 30-60 December 2024, later days January 2025; null for NaT.
month_of(dt) ==
    IF IsNull(dt) THEN <<>>
    ELSE LET d == dt[1] \div MinutesPerDay
         IN <<IF d < 30 THEN 11 ELSE IF d < 61 THEN 12 ELSE 1>>

\* Series.dt.month_name(): null for NaT.
month_name_of(dt) ==
    IF IsNull(dt) THEN <<>>
    ELSE <<CASE month_of(dt)[1] = 11 -> "November"
             [] month_of(dt)[1] = 12 -> "December"
             [] OTHER -> "January">>

\* Series.dt.to_period('M').astype(str): the period as "YYYY-MM"; astype(str)
\* turns the missing period of a NaT into the string 'NaT'.
year_month_of(dt) ==
    IF IsNull(dt) THEN <<"NaT">>
    ELSE <<CASE month_of(dt)[1] = 11 -> "2024-11"
             [] month_of(dt)[1] = 12 -> "2024-12"
             [] OTHER -> "2025-01">>

\* pd.to_datetime(fg_df['date']).dt.normalize(): the cell is <<day>> or blank.
date_obj_of(date) ==
    IF IsNull(date) THEN NaT ELSE normalize(<<date[1] * MinutesPerDay>>)

\* Key comparison of pd.merge: equal keys match, and a null key matches a null
\* key.
MergeKeysMatch(l, r) == l = r

-----------------------------------------------------------------------------
\* load_data

FileNotFoundMessage == "CSV files not found"

\* The cells of one line of the trade log, under the columns the file has.
trade_cells(file, r) ==
    LET always == [Timestamp_IST |-> r.Timestamp_IST, Closed_PnL |-> r.Closed_PnL, Side |-> r.Side]
        entry  == IF "Entry Time" \in file.columns THEN always @@ [Entry_Time |-> r.Entry_Time] ELSE always
    IN IF "Exit Time" \in file.columns THEN entry @@ [Exit_Time |-> r.Exit_Time] ELSE entry

\* hist_df after the date processing: every trade row gains dt, date_match and
\* the time features.
hist_df_of(file) ==
    [i \in 1..Len(file.rows) |->
        LET r == file.rows[i]
            dt == to_datetime(r.Timestamp_IST)
        IN trade_cells(file, r) @@
           [dt          |-> dt,
            date_match  |-> normalize(dt),
            hour        |-> hour_of(dt),
            day_of_week |-> day_name_of(dt),
            month       |-> month_of(dt),
            month_name  |-> month_name_of(dt),
            year_month  |-> year_month_of(dt)]]

\* fg_df with its date_obj column.
fg_df_of(file) ==
    [i \in 1..Len(file.rows) |->
        LET r == file.rows[i]
        IN [date           |-> r.date,
            value          |-> r.value,
            classification |-> r.classification,
            date_obj       |-> date_obj_of(r.date)]]

\* The right rows one left row is paired with, in the right table's order.
MatchesOf(l, right) == SelectSeq(right, LAMBDA r : MergeKeysMatch(l.date_match, r.date_obj))

\* pd.merge(hist_df, fg_df, left_on='date_match', right_on='date_obj',
\* how='inner'): one row per matching pair, in the order of the left rows.
RECURSIVE merge(_, _)
merge(left, right) ==
    IF left = <<>> THEN <<>>
    ELSE LET l == Head(left)
             m == MatchesOf(l, right)
         IN [j \in 1..Len(m) |-> l @@ m[j]] \o merge(Tail(left), right)

\* (exit_dt - entry_dt) in minutes; null when either end is NaT.  The code keeps
\* it as hours (seconds / 3600) and minutes (seconds / 60); timestamps have
\* minute resolution, so the minute count is exact.
holding_time_minutes_of(entry_dt, exit_dt) ==
    IF IsNull(entry_dt) \/ IsNull(exit_dt) THEN <<>>
    ELSE <<exit_dt[1] - entry_dt[1]>>

\* Mutant of conditions: the thresholds compared with <= instead of <.
conditions_inclusive(h) ==
    << IsNull(h),
       NotNull(h) /\ h[1] <= 1 * 60,
       NotNull(h) /\ h[1] <= 24 * 60,
       NotNull(h) /\ h[1] <= 168 * 60,
       NotNull(h) /\ h[1] <= 720 * 60 >>

\* The condition list handed to np.select, as hours compared on the minute
\* count: isna, < 1, < 24, < 168, < 720.
conditions(h) ==
    << IsNull(h),
       NotNull(h) /\ h[1] < 1 * 60,
       NotNull(h) /\ h[1] < 24 * 60,
       NotNull(h) /\ h[1] < 168 * 60,
       NotNull(h) /\ h[1] < 720 * 60 >>

choices == <<"Unknown", "Scalp (<1h)", "Day Trade (1-24h)", "Swing (1-7d)", "Position (1-4w)">>

\* Mutant of np_select: the last condition that holds decides.
np_select_last(conds, chs, default) ==
    IF \E i \in 1..Len(conds) : conds[i]
    THEN chs[CHOOSE i \in 1..Len(conds) : conds[i] /\ \A j \in (i + 1)..Len(conds) : ~conds[j]]
    ELSE default

\* np.select(conditions, choices, default): the choice of the first condition
\* that holds, the default when none does.
np_select(conds, chs, default) ==
    IF \E i \in 1..Len(conds) : conds[i]
    THEN chs[CHOOSE i \in 1..Len(conds) : conds[i] /\ \A j \in 1..(i - 1) : ~conds[j]]
    ELSE default

trade_duration_category_of(h) == np_select(conditions(h), choices, "Long-term (>1m)")

\* The holding-time columns added to a merged row.
with_holding_time(row) ==
    LET entry_dt == to_datetime(row.Entry_Time)
        exit_dt  == to_datetime(row.Exit_Time)
        h        == holding_time_minutes_of(entry_dt, exit_dt)
    IN row @@ [entry_dt                |-> entry_dt,
               exit_dt                 |-> exit_dt,
               holding_time_minutes    |-> h,
               trade_duration_category |-> trade_duration_category_of(h)]

HasHoldingColumns(file) == {"Entry Time", "Exit Time"} \subseteq file.columns

\* Mutant of load_data: only the absence of the trade log is detected; an
\* absent sentiment file reads as a table without rows.
load_data_first_file_only(hist, fg) ==
    IF ~hist.present
    THEN [df |-> <<>>, holding |-> FALSE, errors |-> <<FileNotFoundMessage>>]
    ELSE LET merged == merge(hist_df_of(hist), fg_df_of(fg))
         IN IF HasHoldingColumns(hist)
            THEN [df      |-> [i \in 1..Len(merged) |-> with_holding_time(merged[i])],
                  holding |-> TRUE,
                  errors  |-> <<>>]
            ELSE [df |-> merged, holding |-> FALSE, errors |-> <<>>]

\* Mutant of load_data: no look at the columns of the trade log; the
\* holding-time columns are always added, a cell of a column the log lacks
\* read as blank.
load_data_holding_always(hist, fg) ==
    IF ~hist.present \/ ~fg.present
    THEN [df |-> <<>>, holding |-> FALSE, errors |-> <<FileNotFoundMessage>>]
    ELSE LET merged == merge(hist_df_of(hist), fg_df_of(fg))
             blanks == [Entry_Time |-> <<>>, Exit_Time |-> <<>>]
         IN [df      |-> [i \in 1..Len(merged) |-> with_holding_time(merged[i] @@ blanks)],
             holding |-> TRUE,
             errors  |-> <<>>]

\* load_data(): its return value and the st.error messages it emits (both are
\* what st.cache_data stores and replays).
load_data(hist, fg) ==
    IF ~hist.present \/ ~fg.present
    THEN [df |-> <<>>, holding |-> FALSE, errors |-> <<FileNotFoundMessage>>]
    ELSE LET merged == merge(hist_df_of(hist), fg_df_of(fg))
         IN IF HasHoldingColumns(hist)
            THEN [df      |-> [i \in 1..Len(merged) |-> with_holding_time(merged[i])],
                  holding |-> TRUE,
                  errors  |-> <<>>]
            ELSE [df |-> merged, holding |-> FALSE, errors |-> <<>>]

-----------------------------------------------------------------------------
\* Aggregation and selection

RECURSIVE SortedSeqOfSet(_)
SortedSeqOfSet(S) ==
    IF S = {} THEN <<>>
    ELSE LET m == CHOOSE x \in S : \A y \in S : x <= y
         IN <<m>> \o SortedSeqOfSet(S \ {m})

Elements(pairs) == [i \in 1..Len(pairs) |-> pairs[i][2]]

\* Mutant of compute_daily_overview: one row per trade, the trades of a day not
\* summed into one.
compute_daily_overview_per_trade(df) ==
    LET dated == SelectSeq(df, LAMBDA r : NotNull(r.date_match))
    IN [k \in 1..Len(dated) |->
          [date_match     |-> dated[k].date_match[1],
           Closed_PnL     |-> dated[k].Closed_PnL,
           value          |-> Frac(dated[k].value, 1),
           classification |-> dated[k].classification]]

\* compute_daily_overview(_df): groupby('date_match') drops the rows whose key
\* is null and yields one row per key in ascending key order, with the sum of
\* Closed PnL, the mean of value and the first classification of the group.
compute_daily_overview(df) ==
    LET keys == SortedSeqOfSet({df[i].date_match[1] : i \in {j \in 1..Len(df) : NotNull(df[j].date_match)}})
    IN [k \in 1..Len(keys) |->
          LET g == SelectSeq(df, LAMBDA r : r.date_match = <<keys[k]>>)
          IN [date_match     |-> keys[k],
              Closed_PnL     |-> SumSeq([i \in 1..Len(g) |-> g[i].Closed_PnL]),
              value          |-> Frac(SumSeq([i \in 1..Len(g) |-> g[i].value]), Len(g)),
              classification |-> g[1].classification]]

\* 2024-11-01 and 2024-11-20, as day numbers.
ElectionStartDay == 0

ElectionEndDay == 19

election_start == ElectionStartDay * MinutesPerDay

election_end == ElectionEndDay * MinutesPerDay

\* Line 202: the rows of df dated within the election period; a comparison
\* with NaT is false.
election_df_of(df) ==
    SelectSeq(df, LAMBDA r : /\ NotNull(r.date_match)
                             /\ r.date_match[1] >= election_start
                             /\ r.date_match[1] <= election_end)

\* Lines 205-209: election_df.groupby('date_match').agg(sum, mean, first).
daily_election_of(election_df) ==
    LET keys == SortedSeqOfSet({election_df[i].date_match[1] : i \in 1..Len(election_df)})
    IN [k \in 1..Len(keys) |->
          LET g == SelectSeq(election_df, LAMBDA r : r.date_match = <<keys[k]>>)
          IN [date_match     |-> keys[k],
              Closed_PnL     |-> SumSeq([i \in 1..Len(g) |-> g[i].Closed_PnL]),
              value          |-> Frac(SumSeq([i \in 1..Len(g) |-> g[i].value]), Len(g)),
              classification |-> g[1].classification]]

\* 2024-11-21, as a day number.
PostElectionDay == 20

post_election_start == PostElectionDay * MinutesPerDay

TopK == 3

\* Mutant of post_election_data_of: every day of the daily overview, whatever
\* its date.
post_election_data_unbounded(daily_overview) == daily_overview

\* daily_overview[daily_overview['date_match'] >= post_election_start]
post_election_data_of(daily_overview) ==
    SelectSeq(daily_overview, LAMBDA r : r.date_match >= post_election_start)

losses_only_of(post_election_data) == SelectSeq(post_election_data, LAMBDA r : r.Closed_PnL < 0)

gains_only_of(post_election_data) == SelectSeq(post_election_data, LAMBDA r : r.Closed_PnL > 0)

\* DataFrame.sort_values('Closed PnL'): ascending; equal values keep their order.
sort_values_pnl(rows) == Elements(SortPairs([i \in 1..Len(rows) |-> <<rows[i].Closed_PnL, rows[i]>>]))

\* DataFrame.sort_values('Closed PnL', ascending=False); equal values keep their
\* order.
sort_values_pnl_desc(rows) == Elements(SortPairs([i \in 1..Len(rows) |-> <<-rows[i].Closed_PnL, rows[i]>>]))

\* DataFrame.sort_values('date_match').
\* Mutant of sort_values_date: the rows left in the order they came in.
sort_values_date_skipped(rows) == rows

\* DataFrame.sort_values('date_match')
sort_values_date(rows) == Elements(SortPairs([i \in 1..Len(rows) |-> <<rows[i].date_match, rows[i]>>]))

Reverse(rows) == [i \in 1..Len(rows) |-> rows[Len(rows) + 1 - i]]

\* Mutant of nsmallest: the last occurrence wins a tie (keep='last').
nsmallest_keep_last(n, rows) == FirstN(sort_values_pnl(Reverse(rows)), n)

\* Mutant of nsmallest: the first n rows, as head(n) gives them.
nsmallest_head(n, rows) == FirstN(rows, n)

\* DataFrame.nsmallest(n, 'Closed PnL'): the n rows of lowest value, ascending,
\* the first occurrence winning a tie (keep='first').
nsmallest(n, rows) == FirstN(sort_values_pnl(rows), n)

\* DataFrame.nlargest(n, 'Closed PnL').
nlargest(n, rows) == FirstN(sort_values_pnl_desc(rows), n)

\* Mutant of significant_losses_of: the fallback sorted by date, like the
\* selection of three.
significant_losses_by_date(losses_only) ==
    IF Len(losses_only) >= TopK
    THEN sort_values_date(nsmallest(TopK, losses_only))
    ELSE sort_values_date(losses_only)

significant_losses_of(losses_only) ==
    IF Len(losses_only) >= TopK
    THEN sort_values_date(nsmallest(TopK, losses_only))
    ELSE sort_values_pnl(losses_only)

significant_gains_of(gains_only) ==
    IF Len(gains_only) >= TopK
    THEN sort_values_date(nlargest(TopK, gains_only))
    ELSE sort_values_pnl_desc(gains_only)

dates_of(rows) == {rows[i].date_match : i \in 1..Len(rows)}

OverlapMessage == "Same dates appear as both crash and spike"

\* Lines 541-544: the rows of daily_overview dated after loss_date whose total
\* is positive, in the order of daily_overview.
future_profits_of(daily_overview, loss_date) ==
    SelectSeq(daily_overview, LAMBDA r : r.date_match > loss_date /\ r.Closed_PnL > 0)

\* Mutant of next_profit_date_of: the last profitable day instead of the first.
next_profit_date_last(future_profits) == future_profits[Len(future_profits)].date_match

\* Line 546: future_profits.iloc[0]['date_match'].
next_profit_date_of(future_profits) == future_profits[1].date_match

\* Line 547: (next_profit_date - loss_date).days.
days_to_recovery_of(loss_date, next_profit_date) == (next_profit_date - loss_date) \div MinutesPerDay

\* Lines 537-548: one entry per row of significant_losses that has a later
\* profitable day, in the order of significant_losses.
RECURSIVE recovery_times_of(_, _)
recovery_times_of(significant_losses, daily_overview) ==
    IF significant_losses = <<>> THEN <<>>
    ELSE LET loss_date      == Head(significant_losses).date_match
             future_profits == future_profits_of(daily_overview, loss_date)
         IN (IF future_profits /= <<>>
             THEN <<days_to_recovery_of(loss_date, next_profit_date_of(future_profits))>>
             ELSE <<>>)
            \o recovery_times_of(Tail(significant_losses), daily_overview)

\* Line 550: sum(recovery_times) / len(recovery_times) if recovery_times else 0.
avg_recovery_of(recovery_times) ==
    IF recovery_times /= <<>> THEN Frac(SumSeq(recovery_times), Len(recovery_times)) ELSE Zero

\* Lines 275, 530-551: the recovery analysis, shown when there is a top loss or
\* a top gain.
recovery_of(significant_losses, significant_gains, daily_overview) ==
    IF significant_losses /= <<>> \/ significant_gains /= <<>>
    THEN LET recovery_times == recovery_times_of(significant_losses, daily_overview)
         IN <<[recovery_times |-> recovery_times, avg_recovery |-> avg_recovery_of(recovery_times)]>>
    ELSE <<>>

\* df[df['classification'].isin(selected_sentiment)]
df_filtered_of(df, selected_sentiment) ==
    SelectSeq(df, LAMBDA r : r.classification \in selected_sentiment)

\* df['classification'].unique(), the options and the default of the filter.
classification_unique(df) == {df[i].classification : i \in 1..Len(df)}

\* Mutant of compute_win_rate_stats: the win rate divided out without the
\* total_trades > 0 guard.
compute_win_rate_stats_unguarded(df) ==
    LET winning_trades == SelectSeq(df, LAMBDA r : r.Closed_PnL > 0)
        losing_trades  == SelectSeq(df, LAMBDA r : r.Closed_PnL < 0)
    IN [winning_trades |-> winning_trades,
        losing_trades  |-> losing_trades,
        total_trades   |-> Len(df),
        win_count      |-> Len(winning_trades),
        loss_count     |-> Len(losing_trades),
        win_rate       |-> Frac(Len(winning_trades) * 100, Len(df)),
        avg_win        |-> Frac(SumSeq([i \in 1..Len(winning_trades) |-> winning_trades[i].Closed_PnL]),
                                Len(winning_trades)),
        avg_loss       |-> Frac(SumSeq([i \in 1..Len(losing_trades) |-> losing_trades[i].Closed_PnL]),
                                Len(losing_trades))]

\* compute_win_rate_stats(_df)
compute_win_rate_stats(df) ==
    LET winning_trades == SelectSeq(df, LAMBDA r : r.Closed_PnL > 0)
        losing_trades  == SelectSeq(df, LAMBDA r : r.Closed_PnL < 0)
        total_trades   == Len(df)
        win_count      == Len(winning_trades)
        loss_count     == Len(losing_trades)
    IN [winning_trades |-> winning_trades,
        losing_trades  |-> losing_trades,
        total_trades   |-> total_trades,
        win_count      |-> win_count,
        loss_count     |-> loss_count,
        win_rate       |-> IF total_trades > 0 THEN Frac(win_count * 100, total_trades) ELSE Zero,
        avg_win        |-> IF win_count > 0
                           THEN Frac(SumSeq([i \in 1..win_count |-> winning_trades[i].Closed_PnL]), win_count)
                           ELSE Zero,
        avg_loss       |-> IF loss_count > 0
                           THEN Frac(SumSeq([i \in 1..loss_count |-> losing_trades[i].Closed_PnL]), loss_count)
                           ELSE Zero]

-----------------------------------------------------------------------------
\* Grouped statistics of the filtered trades

PnLs(rows) == [i \in 1..Len(rows) |-> rows[i].Closed_PnL]

\* (len(x[x['Closed PnL'] > 0]) / len(x) * 100) if len(x) > 0 else 0
win_rate_of(x) ==
    IF Len(x) > 0
    THEN Frac(Len(SelectSeq(x, LAMBDA r : r.Closed_PnL > 0)) * 100, Len(x))
    ELSE Zero

\* The columns that hold a nullable value; a cell of the others is never
\* missing.
nullable_columns == {"date_match", "hour", "day_of_week", "month", "month_name", "year_month"}

\* The cell of row r in the column, as a nullable value.
cell(r, column) == IF column \in nullable_columns THEN r[column] ELSE <<r[column]>>

\* DataFrame.groupby(column): one group per distinct non-null key, the groups
\* in ascending key order and the rows of a group in table order.
\* sorted_keys lists the key domain in ascending order (strings compare
\* character by character).
groupby(rows, column, sorted_keys) ==
    LET present(k) == \E i \in 1..Len(rows) : cell(rows[i], column) = <<k>>
        keys       == SelectSeq(sorted_keys, present)
    IN [j \in 1..Len(keys) |->
           [key |-> keys[j], rows |-> SelectSeq(rows, LAMBDA r : cell(r, column) = <<keys[j]>>)]]

\* Mutant of agg_sum_mean_count: the first value of a group in place of its
\* sum (the aggregate 'first').
agg_first_mean_count(groups) ==
    [j \in 1..Len(groups) |->
        [key         |-> groups[j].key,
         Total_PnL   |-> groups[j].rows[1].Closed_PnL,
         Avg_PnL     |-> Frac(SumSeq(PnLs(groups[j].rows)), Len(groups[j].rows)),
         Trade_Count |-> Len(groups[j].rows)]]

\* .agg({'Closed PnL': ['sum', 'mean', 'count']}).reset_index()
agg_sum_mean_count(groups) ==
    [j \in 1..Len(groups) |->
        LET total == SumSeq(PnLs(groups[j].rows))
        IN [key         |-> groups[j].key,
            Total_PnL   |-> total,
            Avg_PnL     |-> Frac(total, Len(groups[j].rows)),
            Trade_Count |-> Len(groups[j].rows)]]

IndexOf(order, k) == CHOOSE i \in 1..Len(order) : order[i] = k

\* Mutant of sort_values_categorical: the rows left in the order groupby gave
\* them.
sort_values_lexical(rows, order) == rows

\* pd.Categorical(column, categories=order, ordered=True) followed by
\* sort_values(column): the rows in the order of the category list.
sort_values_categorical(rows, order) ==
    Elements(SortPairs([i \in 1..Len(rows) |-> <<IndexOf(order, rows[i].key), rows[i]>>]))

hours == [h \in 1..24 |-> h - 1]

\* df_filtered.groupby('hour').agg(...)
hourly_stats_of(df_filtered) ==
    agg_sum_mean_count(groupby(df_filtered, "hour", hours))

day_order == <<"Monday", "Tuesday", "Wednesday", "Thursday", "Friday", "Saturday", "Sunday">>

day_names_sorted == <<"Friday", "Monday", "Saturday", "Sunday", "Thursday", "Tuesday", "Wednesday">>

\* df_filtered.groupby('day_of_week').agg(...), then ordered by day_order.
daily_stats_of(df_filtered) ==
    sort_values_categorical(
        agg_sum_mean_count(groupby(df_filtered, "day_of_week", day_names_sorted)),
        day_order)

year_months_sorted == <<"2024-11", "2024-12", "2025-01", "NaT">>

\* df_filtered.groupby('year_month').agg(...)
monthly_stats_of(df_filtered) ==
    agg_sum_mean_count(groupby(df_filtered, "year_month", year_months_sorted))

classifications_sorted == <<"Extreme Fear", "Extreme Greed", "Fear", "Greed", "Neutral">>

\* df_filtered.groupby('classification').apply(...): win rate and counts of
\* each sentiment group.
win_rate_by_sentiment_of(df_filtered) ==
    LET groups == groupby(df_filtered, "classification", classifications_sorted)
    IN [j \in 1..Len(groups) |->
           LET x == groups[j].rows
           IN [key            |-> groups[j].key,
               Win_Rate       |-> win_rate_of(x),
               Avg_Profit     |-> Frac(SumSeq(PnLs(x)), Len(x)),
               Total_Trades   |-> Len(x),
               Winning_Trades |-> Len(SelectSeq(x, LAMBDA r : r.Closed_PnL > 0)),
               Losing_Trades  |-> Len(SelectSeq(x, LAMBDA r : r.Closed_PnL < 0))]]

hold_bucket_labels == <<"<1h", "1-4h", "4-12h", "12-24h", "1-3d", "3-7d", ">7d">>

\* The upper edges of the bins [0, 1, 4, 12, 24, 72, 168, inf] in minutes; the
\* last bin has none.
hold_bucket_edges == <<1 * 60, 4 * 60, 12 * 60, 24 * 60, 72 * 60, 168 * 60>>

\* pd.cut(holding_time_hours, bins, labels): the bins are open on the left and
\* closed on the right, so a holding time of zero or less, like a null one,
\* falls in no bin.
hold_bucket_of(h) ==
    IF IsNull(h) \/ h[1] <= 0 THEN <<>>
    ELSE IF \E i \in 1..Len(hold_bucket_edges) : h[1] <= hold_bucket_edges[i]
         THEN <<hold_bucket_labels[CHOOSE i \in 1..Len(hold_bucket_edges) :
                    /\ h[1] <= hold_bucket_edges[i]
                    /\ \A j \in 1..(i - 1) : h[1] > hold_bucket_edges[j]]>>
         ELSE <<hold_bucket_labels[Len(hold_bucket_labels)]>>

\* df_filtered['hold_bucket'] = pd.cut(...): the assignment adds the column to
\* the frame df_filtered is bound to.
with_hold_bucket(df_filtered) ==
    [i \in 1..Len(df_filtered) |->
        df_filtered[i] @@ [hold_bucket |-> hold_bucket_of(df_filtered[i].holding_time_minutes)]]

\* df_filtered.groupby('hold_bucket').agg(...): hold_bucket is categorical, so
\* the result has one row per label, the labels without trades included
\* (count 0, sum 0, mean NaN).
hold_stats_of(df_filtered) ==
    [j \in 1..Len(hold_bucket_labels) |->
        LET x == SelectSeq(df_filtered, LAMBDA r : r.hold_bucket = <<hold_bucket_labels[j]>>)
        IN [key         |-> hold_bucket_labels[j],
            Total_PnL   |-> SumSeq(PnLs(x)),
            Avg_PnL     |-> IF x = <<>> THEN <<>> ELSE <<Frac(SumSeq(PnLs(x)), Len(x))>>,
            Trade_Count |-> Len(x)]]

category_order ==
    <<"Scalp (<1h)", "Day Trade (1-24h)", "Swing (1-7d)", "Position (1-4w)", "Long-term (>1m)", "Unknown">>

categories_sorted ==
    <<"Day Trade (1-24h)", "Long-term (>1m)", "Position (1-4w)", "Scalp (<1h)", "Swing (1-7d)", "Unknown">>

\* df_filtered.groupby('trade_duration_category').apply(win rate)
category_winrate_of(df_filtered) ==
    LET groups == groupby(df_filtered, "trade_duration_category", categories_sorted)
    IN [j \in 1..Len(groups) |-> [key |-> groups[j].key, Win_Rate |-> win_rate_of(groups[j].rows)]]

\* category_stats: the sums, means and counts of each duration category,
\* merged with category_winrate on the category and put in category_order.
category_stats_of(df_filtered) ==
    LET stats   == agg_sum_mean_count(
                       groupby(df_filtered, "trade_duration_category", categories_sorted))
        winrate == category_winrate_of(df_filtered)
        merged  == [j \in 1..Len(stats) |->
                       stats[j] @@ [Win_Rate |-> winrate[IndexOf([i \in 1..Len(winrate) |-> winrate[i].key],
                                                                 stats[j].key)].Win_Rate]]
    IN sort_values_categorical(merged, category_order)

-----------------------------------------------------------------------------
\* The strategy simulator

scenario_sides == {"Both (BUY & SELL)", "Only LONG (BUY)", "Only SHORT (SELL)"}

\* The default of the scenario_sentiment widget.
scenario_default == {"Extreme Fear"}

\* scenario_df: the rows of the unfiltered df in the chosen sentiments, then of
\* the chosen side.
scenario_df_of(df, scenario_sentiment, scenario_side) ==
    LET in_sentiment == SelectSeq(df, LAMBDA r : r.classification \in scenario_sentiment)
    IN CASE scenario_side = "Only LONG (BUY)"   -> SelectSeq(in_sentiment, LAMBDA r : r.Side = "BUY")
         [] scenario_side = "Only SHORT (SELL)" -> SelectSeq(in_sentiment, LAMBDA r : r.Side = "SELL")
         [] OTHER                               -> in_sentiment

NoTradesMessage == "No trades match the selected criteria"

\* The quotient n/d of two numpy scalars, d of either sign.
np_divide(n, d) ==
    IF d = 0 THEN (IF n = 0 THEN NotANumber ELSE Infinity)
    ELSE IF d < 0 THEN Frac(-n, -d) ELSE Frac(n, d)

\* Lines 1353-1366: the message under the comparison chart and the
\* percentage it quotes, delta / actual_total * 100 or
\* abs(delta) / actual_total * 100.
verdict_of(scenario_total, actual_total) ==
    IF scenario_total > actual_total
    THEN [verdict |-> "MORE profitable",
          percent |-> np_divide((scenario_total - actual_total) * 100, actual_total)]
    ELSE [verdict |-> "LESS profitable",
          percent |-> np_divide(Abs(scenario_total - actual_total) * 100, actual_total)]

\* Lines 1281-1368: the metrics and the verdict when scenario_df has rows, the
\* warning when it has none.
what_if_of(df, scenario_sentiment, scenario_side) ==
    LET scenario_df    == scenario_df_of(df, scenario_sentiment, scenario_side)
        scenario_total == SumSeq(PnLs(scenario_df))
        actual_total   == SumSeq(PnLs(df))
    IN IF Len(scenario_df) > 0
       THEN [scenario_trades  |-> Len(scenario_df),
             metrics          |-> <<[scenario_total   |-> scenario_total,
                                     actual_total     |-> actual_total,
                                     delta            |-> scenario_total - actual_total,
                                     scenario_winrate |-> win_rate_of(scenario_df),
                                     actual_winrate   |-> win_rate_of(df),
                                     verdict          |-> verdict_of(scenario_total, actual_total).verdict,
                                     percent          |-> verdict_of(scenario_total, actual_total).percent]>>,
             warnings         |-> <<>>]
       ELSE [scenario_trades |-> 0, metrics |-> <<>>, warnings |-> <<NoTradesMessage>>]

-----------------------------------------------------------------------------
\* The script: one execution per session and interaction

Sessions == {"s1", "s2"}

FirstSession == "s1"

NotRendered == <<>>

\* What a session has on screen.
EmptyView ==
    [errors             |-> <<>>,
     halted             |-> FALSE,
     daily_overview     |-> NotRendered,
     df_filtered        |-> NotRendered,
     daily_election     |-> NotRendered,
     significant_losses |-> NotRendered,
     significant_gains  |-> NotRendered,
     recovery           |-> NotRendered,
     win_stats          |-> NotRendered,
     win_rate_by_sentiment |-> NotRendered,
     hourly_stats       |-> NotRendered,
     daily_stats        |-> NotRendered,
     monthly_stats      |-> NotRendered,
     hold_stats         |-> NotRendered,
     category_stats     |-> NotRendered,
     what_if            |-> NotRendered,
     fault              |-> <<>>]

\* st.cache_data: the stored value when there is one, else the computed one.
\* The key is made of the arguments whose name has no leading underscore;
\* load_data takes none and the two compute_* functions take only _df, so each
\* function has a single entry for the whole process.
Cached(entry, computed) == IF NotNull(entry) THEN entry[1] ELSE computed

\* Mutant of RunHead: the daily overview computed afresh from the filtered
\* table.
RunHead_filtered_overview(s, sel) ==
    LET ld == Cached(cache.load_data, load_data(hist_file, fg_file))
    IN IF ld.df = <<>>
       THEN /\ cache' = [cache EXCEPT !.load_data = <<ld>>]
            /\ phase' = [phase EXCEPT ![s] = "stopped"]
            /\ view' = [view EXCEPT ![s] = [EmptyView EXCEPT !.errors = ld.errors, !.halted = TRUE]]
            /\ UNCHANGED selected
       ELSE LET chosen == IF IsNull(sel) THEN classification_unique(ld.df) ELSE sel[1]
                daily  == compute_daily_overview(df_filtered_of(ld.df, chosen))
            IN /\ cache' = [cache EXCEPT !.load_data = <<ld>>, !.compute_daily_overview = <<daily>>]
               /\ phase' = [phase EXCEPT ![s] = "running"]
               /\ selected' = [selected EXCEPT ![s] = chosen]
               /\ view' = [view EXCEPT ![s] =
                              [EmptyView EXCEPT !.errors = ld.errors,
                                                !.daily_overview = <<daily>>,
                                                !.df_filtered = <<df_filtered_of(ld.df, chosen)>>]]

\* Lines 98-115: load_data, the df.empty stop, the daily overview and the
\* sidebar filter.  sel is the widget's value, <<>> for a widget never touched
\* (its default is every classification of df).
RunHead(s, sel) ==
    LET ld == Cached(cache.load_data, load_data(hist_file, fg_file))
    IN IF ld.df = <<>>
       THEN /\ cache' = [cache EXCEPT !.load_data = <<ld>>]
            /\ phase' = [phase EXCEPT ![s] = "stopped"]
            /\ view' = [view EXCEPT ![s] = [EmptyView EXCEPT !.errors = ld.errors, !.halted = TRUE]]
            /\ UNCHANGED selected
       ELSE LET daily == Cached(cache.compute_daily_overview, compute_daily_overview(ld.df))
                chosen == IF IsNull(sel) THEN classification_unique(ld.df) ELSE sel[1]
            IN /\ cache' = [cache EXCEPT !.load_data = <<ld>>, !.compute_daily_overview = <<daily>>]
               /\ phase' = [phase EXCEPT ![s] = "running"]
               /\ selected' = [selected EXCEPT ![s] = chosen]
               /\ view' = [view EXCEPT ![s] =
                              [EmptyView EXCEPT !.errors = ld.errors,
                                                !.daily_overview = <<daily>>,
                                                !.df_filtered = <<df_filtered_of(ld.df, chosen)>>]]

\* A session opens the page: the first execution of the script.
StartRun(s) ==
    /\ phase[s] = "new"
    /\ RunHead(s, <<>>)
    /\ UNCHANGED <<hist_file, fg_file, changed, scenario>>

\* The user sets the sentiment filter to sel (or asks for a rerun with the
\* same value): the execution under way, if any, is abandoned and the script
\* starts again from the top.
ChangeFilter(s, sel) ==
    /\ phase[s] \in {"running", "done"}
    /\ sel \subseteq classification_unique(cache.load_data[1].df)
    /\ RunHead(s, <<sel>>)
    /\ changed' = [changed EXCEPT ![s] = changed[s] \/ sel /= selected[s]]
    /\ UNCHANGED <<hist_file, fg_file, scenario>>

\* The line at which the execution ends on an uncaught exception, null when it
\* reaches the end of the script.
\*  - 653 or 730, when df_filtered has no rows: groupby(...).apply(...) of an
\*    empty frame gives a frame without the columns the lambda names, and
\*    whether the styled table of line 660 or only the chart of line 730 fails
\*    on that depends on the pandas release (early chooses);
\*  - 883, hourly_stats without rows has no idxmax;
\*  - 1142, hold_stats whose means are all NaN has no row at its idxmax;
\*  - 1267, the default of the scenario_sentiment multiselect is not among its
\*    options.
fault_line_of(df, holding, df_filtered, early) ==
    IF df_filtered = <<>> THEN <<IF early THEN 653 ELSE 730>>
    ELSE IF hourly_stats_of(df_filtered) = <<>> THEN <<883>>
    ELSE IF holding /\ \A i \in 1..Len(df_filtered) : IsNull(hold_bucket_of(df_filtered[i].holding_time_minutes))
         THEN <<1142>>
    ELSE IF ~(scenario_default \subseteq classification_unique(df)) THEN <<1267>>
    ELSE <<>>

\* Whether an execution ending at fault (null: at the end of the script) runs
\* the statement of the given line.
Reaches(fault, line) == IsNull(fault) \/ line < fault[1]

\* Lines 116-1382: the rest of the execution, to the end of the script or to
\* the exception that ends it.
FinishRun(s) ==
    /\ phase[s] = "running"
    /\ \E early \in BOOLEAN :
       LET ld                 == cache.load_data[1]
           df                 == ld.df
           daily_overview     == view[s].daily_overview[1]
           df_filtered        == view[s].df_filtered[1]
           post_election_data == post_election_data_of(daily_overview)
           significant_losses == significant_losses_of(losses_only_of(post_election_data))
           significant_gains  == significant_gains_of(gains_only_of(post_election_data))
           overlap            == dates_of(significant_losses) \cap dates_of(significant_gains)
           fault              == fault_line_of(df, ld.holding, df_filtered, early)
           win_stats          == Cached(cache.compute_win_rate_stats, compute_win_rate_stats(df_filtered))
           bucketed           == with_hold_bucket(df_filtered)
           sentiment          == IF IsNull(scenario[s].sentiment) THEN scenario_default
                                 ELSE scenario[s].sentiment[1]
           Shown(line, value) == IF Reaches(fault, line) THEN <<value>> ELSE NotRendered
       IN /\ cache' = IF Reaches(fault, 689)
                      THEN [cache EXCEPT !.compute_win_rate_stats = <<win_stats>>]
                      ELSE cache
          /\ view' = [view EXCEPT ![s] =
                         [@ EXCEPT !.errors = IF overlap /= {} THEN Append(@, OverlapMessage) ELSE @,
                                   !.daily_election = <<daily_election_of(election_df_of(df))>>,
                                   !.significant_losses = <<significant_losses>>,
                                   !.significant_gains = <<significant_gains>>,
                                   !.recovery = recovery_of(significant_losses, significant_gains, daily_overview),
                                   !.win_stats = Shown(689, win_stats),
                                   !.win_rate_by_sentiment = Shown(719, win_rate_by_sentiment_of(df_filtered)),
                                   !.hourly_stats = Shown(852, hourly_stats_of(df_filtered)),
                                   !.daily_stats = Shown(943, daily_stats_of(df_filtered)),
                                   !.monthly_stats = Shown(984, monthly_stats_of(df_filtered)),
                                   !.df_filtered = IF ld.holding /\ Reaches(fault, 1098)
                                                   THEN <<bucketed>> ELSE @,
                                   !.hold_stats = IF ld.holding THEN Shown(1102, hold_stats_of(bucketed))
                                                  ELSE NotRendered,
                                   !.category_stats = IF ld.holding
                                                      THEN Shown(1149, category_stats_of(df_filtered))
                                                      ELSE NotRendered,
                                   !.what_if = Shown(1281, what_if_of(df, sentiment, scenario[s].side)),
                                   !.fault = fault]]
    /\ phase' = [phase EXCEPT ![s] = "done"]
    /\ UNCHANGED <<hist_file, fg_file, selected, changed, scenario>>

\* The user changes the widgets of the strategy simulator, which the last
\* execution put on screen: the script runs again from the top with the
\* sidebar filter as it is.
ChangeScenario(s, scenario_sentiment, scenario_side) ==
    /\ phase[s] = "done"
    /\ NotNull(view[s].what_if)
    /\ scenario_sentiment \subseteq classification_unique(cache.load_data[1].df)
    /\ scenario' = [scenario EXCEPT ![s] = [sentiment |-> <<scenario_sentiment>>, side |-> scenario_side]]
    /\ RunHead(s, <<selected[s]>>)
    /\ UNCHANGED <<hist_file, fg_file, changed>>

Classifications == {"Extreme Fear", "Fear", "Neutral", "Greed", "Extreme Greed"}

\* Every session interleaves freely with the others.
Next == \E s \in Sessions : StartRun(s) \/ FinishRun(s) \/ (\E sel \in SUBSET Classifications : ChangeFilter(s, sel))

\* One session opening the page and letting the script run to its end.
NextRun == StartRun(FirstSession) \/ FinishRun(FirstSession)

\* One session that also changes its sentiment filter.
NextFilter == NextRun \/ (\E sel \in SUBSET Classifications : ChangeFilter(FirstSession, sel))

\* One session that also uses the strategy simulator.
NextSession ==
    \/ NextFilter
    \/ \E sentiment \in SUBSET Classifications : \E side \in scenario_sides :
          ChangeScenario(FirstSession, sentiment, side)

-----------------------------------------------------------------------------
\* Input files

AbsentFile == [present |-> FALSE, columns |-> {}, rows |-> <<>>]

TradeColumns == {"Timestamp IST", "Side", "Closed PnL", "Entry Time", "Exit Time"}

HistFile(rows) == [present |-> TRUE, columns |-> TradeColumns, rows |-> rows]

FgFile(rows) == [present |-> TRUE, columns |-> {"date", "value", "classification"}, rows |-> rows]

Trade(ts, entry, exit, pnl) ==
    [Timestamp_IST |-> ts, Entry_Time |-> entry, Exit_Time |-> exit, Closed_PnL |-> pnl, Side |-> "BUY"]

TradeOfSide(ts, entry, exit, pnl, side) == [Trade(ts, entry, exit, pnl) EXCEPT !.Side = side]

IndexValue(c) == IF c = "Fear" THEN 30 ELSE 70

Fg(date, c) == [date |-> date, value |-> IndexValue(c), classification |-> c]

InitSessions ==
    /\ cache = [load_data |-> <<>>, compute_daily_overview |-> <<>>, compute_win_rate_stats |-> <<>>]
    /\ phase = [s \in Sessions |-> "new"]
    /\ selected = [s \in Sessions |-> {}]
    /\ changed = [s \in Sessions |-> FALSE]
    /\ scenario = [s \in Sessions |-> [sentiment |-> <<>>, side |-> "Both (BUY & SELL)"]]
    /\ view = [s \in Sessions |-> EmptyView]

MaxTrades == 2

\* Trades of two days, losing and winning.
SessionTrades ==
    {Trade(<<d, 9, 30>>, <<d, 9, 30>>, <<d, 10, 0>>, pnl) : d \in {20, 21}, pnl \in {-1, 2}}

SessionFgRows ==
    { <<>>,
      <<Fg(<<20>>, "Fear")>>,
      <<Fg(<<25>>, "Greed")>>,
      <<Fg(<<20>>, "Fear"), Fg(<<21>>, "Greed")>> }

Init ==
    /\ hist_file \in {AbsentFile} \cup {HistFile(r) : r \in SeqsUpTo(SessionTrades, MaxTrades)}
    /\ fg_file \in {AbsentFile} \cup {FgFile(r) : r \in SessionFgRows}
    /\ InitSessions

Spec == Init /\ [][Next]_vars

\* Join inputs: trades of two days at several times of day, one of them with a
\* timestamp the format rejects (hour 24); sentiment rows dated, or with a
\* blank date cell.
MaxFgRows == 2

JoinTrades ==
    {Trade(ts, ts, ts, 1) : ts \in {<<20, 9, 30>>, <<20, 23, 59>>, <<21, 0, 0>>, <<20, 24, 0>>}}

JoinFgRows == {Fg(d, c) : d \in {<<20>>, <<21>>, <<>>}, c \in {"Fear", "Greed"}}

InitJoin ==
    /\ hist_file \in {HistFile(r) : r \in SeqsUpTo(JoinTrades, MaxTrades)}
    /\ fg_file \in {FgFile(r) : r \in SeqsUpTo(JoinFgRows, MaxFgRows)}
    /\ InitSessions

SpecJoin == InitJoin /\ [][NextRun]_vars

\* Holding-time inputs: one trade whose entry and exit cells are well formed,
\* blank or rejected by the format; the exits lie before the entry, and at or
\* one minute short of 1 h, 24 h, 168 h and 720 h after it.
DurationEntries == {<<20, 0, 0>>, <<20, 1, 0>>, <<>>, <<20, 24, 0>>}

DurationExits ==
    {<<d, h, m>> : d \in {19, 20, 21, 27, 50}, h \in {0, 1}, m \in {0, 59}} \cup {<<>>, <<20, 0, 60>>}

InitDuration ==
    /\ hist_file \in {HistFile(<<Trade(<<20, 0, 0>>, entry, exit, 1)>>) : entry \in DurationEntries, exit \in DurationExits}
    /\ fg_file = FgFile(<<Fg(<<20>>, "Fear")>>)
    /\ InitSessions

SpecDuration == InitDuration /\ [][NextRun]_vars

\* Daily-series inputs: one trade on each of NumDays days from 2024-11-21 on,
\* and possibly one more, either a second trade on the first of them or a
\* trade on 2024-11-20, the day before the post-election range.  The file
\* lists the days newest first.
NumDays == 4

PnLValues == {-2, -1, 0, 1, 2}

DayTrade(d, pnl) == Trade(<<d, 12, 0>>, <<d, 12, 0>>, <<d, 12, 30>>, pnl)

RangeTrades(pnl) == [i \in 1..NumDays |-> DayTrade(PostElectionDay + NumDays - i, pnl[NumDays + 1 - i])]

InitExtremum ==
    /\ \E pnl \in [1..NumDays -> PnLValues] :
       \E extra \in {<<>>, <<DayTrade(PostElectionDay, 1)>>}
                       \cup {<<DayTrade(PostElectionDay - 1, v)>> : v \in {-3, 3}} :
          hist_file = HistFile(RangeTrades(pnl) \o extra)
    /\ fg_file = FgFile([i \in 1..(NumDays + 1) |-> Fg(<<PostElectionDay - 2 + i>>, "Fear")])
    /\ InitSessions

SpecExtremum == InitExtremum /\ [][NextRun]_vars

\* Grouping inputs: up to MaxAggTrades trades out of a few that share an hour,
\* a weekday (2024-11-21 and 2024-11-28 are Thursdays), a month or a duration
\* category while differing in PnL; one of them has a timestamp the format
\* rejects and enters the enriched table through the sentiment row whose date
\* is blank, one has no exit time.
MaxAggTrades == 3

AggEntry == <<20, 0, 0>>

AggTrades ==
    {Trade(t[1], AggEntry, t[2], t[3]) :
        t \in { << <<20, 9, 0>>,  <<20, 0, 30>>, -1 >>,
                << <<20, 9, 30>>, <<20, 2, 0>>,  2 >>,
                << <<21, 9, 0>>,  <<20, 0, 30>>, 2 >>,
                << <<21, 9, 0>>,  <<20, 2, 0>>,  -1 >>,
                << <<27, 10, 0>>, <<20, 2, 0>>,  -1 >>,
                << <<34, 9, 0>>,  <<>>,          2 >>,
                << <<20, 24, 0>>, <<20, 0, 30>>, -1 >> }}

AggFgRows ==
    <<Fg(<<20>>, "Extreme Fear"), Fg(<<21>>, "Fear"), Fg(<<27>>, "Greed"), Fg(<<34>>, "Greed"),
      Fg(<<>>, "Fear")>>

InitAggregate ==
    /\ hist_file \in {HistFile(r) : r \in SeqsUpTo(AggTrades, MaxAggTrades)}
    /\ fg_file = FgFile(AggFgRows)
    /\ InitSessions

SpecAggregate == InitAggregate /\ [][NextRun]_vars

\* The election scenario: a trade of 2817 on 2024-11-06 (Greed), trades worth
\* 7846 on 2024-11-13 (Extreme Greed), in one trade or two, and a trade of
\* -500 on 2024-12-05 (Fear); the lines of both files in any order.
ScenarioDays == <<5, 12, 34>>

ScenarioPnL == <<2817, 7846, -500>>

ScenarioClasses == <<"Greed", "Extreme Greed", "Fear">>

Orders(n) == {p \in [1..n -> 1..n] : \A i, j \in 1..n : p[i] = p[j] => i = j}

ScenarioSplit == ScenarioPnL[2] - 846

ScenarioTrades ==
    { <<DayTrade(ScenarioDays[1], ScenarioPnL[1]), DayTrade(ScenarioDays[2], ScenarioPnL[2]),
        DayTrade(ScenarioDays[3], ScenarioPnL[3])>>,
      <<DayTrade(ScenarioDays[1], ScenarioPnL[1]), DayTrade(ScenarioDays[2], ScenarioSplit),
        DayTrade(ScenarioDays[3], ScenarioPnL[3]), DayTrade(ScenarioDays[2], ScenarioPnL[2] - ScenarioSplit)>> }

Permuted(rows) == {[i \in 1..Len(rows) |-> rows[p[i]]] : p \in Orders(Len(rows))}

InitScenario ==
    /\ \E trades \in ScenarioTrades : hist_file \in {HistFile(r) : r \in Permuted(trades)}
    /\ fg_file \in {FgFile(r) : r \in Permuted([i \in 1..3 |-> Fg(<<ScenarioDays[i]>>, ScenarioClasses[i])])}
    /\ InitSessions

SpecScenario == InitScenario /\ [][NextFilter]_vars

\* View inputs: up to MaxViewTrades trades of 2024-11-21 (Extreme Fear) and
\* 2024-11-22 (Fear), bought or sold, held for half an hour, for an hour, or
\* closed before they were opened; the session changes its filter and uses
\* the strategy simulator.
MaxViewTrades == 2

ViewEntry == <<20, 0, 0>>

ViewTrades ==
    { TradeOfSide(<<20, 10, 0>>, ViewEntry, <<20, 0, 30>>, 2, "BUY"),
      TradeOfSide(<<21, 10, 0>>, ViewEntry, <<20, 1, 0>>, -2, "SELL"),
      TradeOfSide(<<21, 11, 0>>, ViewEntry, <<19, 23, 0>>, 2, "BUY"),
      TradeOfSide(<<20, 11, 0>>, ViewEntry, <<20, 0, 30>>, -2, "BUY") }

ViewFgRows == <<Fg(<<20>>, "Extreme Fear"), Fg(<<21>>, "Fear")>>

InitViews ==
    /\ hist_file \in {HistFile(r) : r \in SeqsUpTo(ViewTrades, MaxViewTrades)}
    /\ fg_file = FgFile(ViewFgRows)
    /\ InitSessions

SpecViews == InitViews /\ [][NextSession]_vars

\* Frame inputs: any of the trades below, over the last two days of the
\* election period and the first three after it, under sentiment classes that
\* alternate from day to day; two sessions filter independently.
FrameEntry == <<18, 0, 0>>

FrameTrades ==
    << TradeOfSide(<<18, 10, 0>>, FrameEntry, <<18, 0, 30>>, 1, "BUY"),
       TradeOfSide(<<19, 10, 0>>, FrameEntry, <<18, 0, 30>>, -1, "SELL"),
       TradeOfSide(<<20, 10, 0>>, FrameEntry, <<18, 0, 30>>, -2, "BUY"),
       TradeOfSide(<<21, 10, 0>>, FrameEntry, <<18, 0, 30>>, -1, "SELL"),
       TradeOfSide(<<22, 10, 0>>, FrameEntry, <<18, 0, 30>>, 3, "BUY") >>

FrameFgRows ==
    [i \in 1..Len(FrameTrades) |-> Fg(<<17 + i>>, IF i % 2 = 1 THEN "Extreme Fear" ELSE "Fear")]

InitFrame ==
    /\ \E chosen \in SUBSET (1..Len(FrameTrades)) :
          hist_file = HistFile(Map(SortedSeqOfSet(chosen), LAMBDA i : FrameTrades[i]))
    /\ fg_file = FgFile(FrameFgRows)
    /\ InitSessions

SpecFrame == InitFrame /\ [][Next]_vars

\* Column inputs: the trade log with or without its 'Entry Time' and
\* 'Exit Time' columns.
ColumnSets == {TradeColumns \ missing : missing \in SUBSET {"Entry Time", "Exit Time"}}

InitColumns ==
    /\ \E columns \in ColumnSets : \E r \in SeqsUpTo(ViewTrades, MaxViewTrades) :
          hist_file = [HistFile(r) EXCEPT !.columns = columns]
    /\ fg_file = FgFile(ViewFgRows)
    /\ InitSessions

SpecColumns == InitColumns /\ [][NextRun]_vars

-----------------------------------------------------------------------------
\* Properties

Loaded == NotNull(cache.load_data)

\* The enriched table the process holds.
EnrichedDf == cache.load_data[1].df

BothPresent == hist_file.present /\ fg_file.present

NothingComputed(v) ==
    /\ v.daily_overview = NotRendered
    /\ v.df_filtered = NotRendered
    /\ v.significant_losses = NotRendered
    /\ v.significant_gains = NotRendered
    /\ v.win_stats = NotRendered

\* Two dates are the same day: both are dates, and they are equal.
SameDate(a, b) == NotNull(a) /\ NotNull(b) /\ a = b

TradeDate(t) == normalize(to_datetime(t.Timestamp_IST))

\* Row r of the enriched table is trade t paired with sentiment row f.
IsPairRow(r, t, f) ==
    /\ r.Timestamp_IST = t.Timestamp_IST
    /\ r.Closed_PnL = t.Closed_PnL
    /\ r.date = f.date
    /\ r.value = f.value
    /\ r.classification = f.classification

\* C1: the enriched table has a row for the trade T and the sentiment row S if
\* and only if S's date is T's normalized trade date, and it has as many rows as
\* there are such pairs, each carrying the value and classification of its S.
C1_JoinCorrectness ==
    Loaded =>
        LET T == hist_file.rows
            F == fg_file.rows
            matching == {p \in (1..Len(T)) \X (1..Len(F)) : SameDate(TradeDate(T[p[1]]), date_obj_of(F[p[2]].date))}
        IN /\ Len(EnrichedDf) = Cardinality(matching)
           /\ \A p \in (1..Len(T)) \X (1..Len(F)) :
                 (\E k \in 1..Len(EnrichedDf) : IsPairRow(EnrichedDf[k], T[p[1]], F[p[2]])) <=> p \in matching

\* C2: when either input file is absent, a session that runs the script gets
\* the diagnostic and stops with no overview, filtered view, selection or
\* statistic computed.
C2_MissingInputHalts ==
    \A s \in Sessions :
        (phase[s] /= "new" /\ ~BothPresent) =>
            /\ phase[s] = "stopped"
            /\ view[s].halted
            /\ FileNotFoundMessage \in Range(view[s].errors)
            /\ NothingComputed(view[s])

\* C2 witness: the trade log is there, the sentiment file is not, and a
\* session has run.
C2_Witness == \E s \in Sessions : phase[s] = "stopped" /\ hist_file.present /\ ~fg_file.present

\* C3: when both files are present and a table or their join has no rows, a
\* session that runs the script is told so and stops before anything is
\* computed.
C3_EmptyInputReported ==
    \A s \in Sessions :
        (phase[s] /= "new" /\ BothPresent /\ EnrichedDf = <<>>) =>
            /\ view[s].halted
            /\ NothingComputed(view[s])
            /\ view[s].errors /= <<>>

\* A row of the filtered view without the column the holding-time section
\* adds to it.
LoadedColumns(r) == [c \in DOMAIN r \ {"hold_bucket"} |-> r[c]]

\* The statistics of exactly the enriched trades whose classification session
\* s has selected.
StatsOfSelection(s) == compute_win_rate_stats(df_filtered_of(EnrichedDf, selected[s]))

\* C4: in a process with one session, whatever filter changes it made, the
\* win-rate statistics on its screen, when the execution got to show them,
\* are those of its current selection.
C4_StatsFollowFilter ==
    \A s \in Sessions :
        (/\ phase[s] = "done"
         /\ NotNull(view[s].win_stats)
         /\ \A t \in Sessions \ {s} : phase[t] = "new") =>
            view[s].win_stats = <<StatsOfSelection(s)>>

\* C5: a session that never touched its filter sees the filtered view and the
\* statistics of its own (default) selection, whatever the other sessions did.
C5_SessionIsolation ==
    \A s \in Sessions :
        (phase[s] = "done" /\ ~changed[s] /\ NotNull(view[s].win_stats)) =>
            /\ Map(view[s].df_filtered[1], LoadedColumns) = df_filtered_of(EnrichedDf, selected[s])
            /\ view[s].win_stats = <<StatsOfSelection(s)>>

HoldingRows == IF Loaded /\ cache.load_data[1].holding THEN Range(EnrichedDf) ELSE {}

\* The category the ordered rules give a holding time of m minutes.
CategoryOfMinutes(m) ==
    IF m < 60 THEN "Scalp (<1h)"
    ELSE IF m < 24 * 60 THEN "Day Trade (1-24h)"
    ELSE IF m < 168 * 60 THEN "Swing (1-7d)"
    ELSE IF m < 720 * 60 THEN "Position (1-4w)"
    ELSE "Long-term (>1m)"

\* C6: every enriched trade has the one category the ordered rules give it:
\* 'Unknown' exactly when its entry or exit cell does not parse, else the
\* first of < 1h, < 24h, < 168h, < 720h that holds, else 'Long-term (>1m)'; a
\* holding time of exactly 1h, 24h, 168h or 720h is in the later category.
C6_DurationCategory ==
    \A r \in HoldingRows :
        LET entry == to_datetime(r.Entry_Time)
            exit  == to_datetime(r.Exit_Time)
        IN IF IsNull(entry) \/ IsNull(exit)
           THEN r.trade_duration_category = "Unknown"
           ELSE /\ r.trade_duration_category = CategoryOfMinutes(exit[1] - entry[1])
                /\ r.trade_duration_category /= "Unknown"

\* C6 witness: a trade held for exactly 1h has been classified as a day trade.
C6_Witness ==
    \E r \in HoldingRows :
        /\ r.holding_time_minutes = <<60>>
        /\ r.trade_duration_category = "Day Trade (1-24h)"

\* C7 as stated: a trade that exits before it enters is 'Long-term (>1m)'.
C7_NegativeIsLongTerm ==
    \A r \in HoldingRows :
        (NotNull(r.holding_time_minutes) /\ r.holding_time_minutes[1] < 0) =>
            r.trade_duration_category = "Long-term (>1m)"

\* C7 amended: a trade that exits before it enters is 'Scalp (<1h)', the first
\* threshold rule (< 1h) holding of a negative time.
C7_NegativeIsScalp ==
    \A r \in HoldingRows :
        (NotNull(r.holding_time_minutes) /\ r.holding_time_minutes[1] < 0) =>
            r.trade_duration_category = "Scalp (<1h)"

\* C7 witness: a trade with a negative holding time has been classified.
C7_Witness ==
    \E r \in HoldingRows : NotNull(r.holding_time_minutes) /\ r.holding_time_minutes[1] < 0

\* The sessions whose script ran to its end.
DoneSessions == {s \in Sessions : phase[s] = "done"}

\* The daily-overview rows on session s's screen dated 2024-11-21 or later.
InRange(s) == {r \in Range(view[s].daily_overview[1]) : r.date_match >= PostElectionDay * MinutesPerDay}

NegativeDays(s) == {r \in InRange(s) : r.Closed_PnL < 0}

PositiveDays(s) == {r \in InRange(s) : r.Closed_PnL > 0}

Min(a, b) == IF a < b THEN a ELSE b

\* seq lists distinct rows of the set S, n of them.
SelectsFrom(seq, S, n) ==
    /\ Len(seq) = n
    /\ Range(seq) \subseteq S
    /\ Cardinality(Range(seq)) = n

\* C8: the loss days selected are min(3, n) of the n in-range days of strictly
\* negative PnL, none of them above an unselected negative day; the gain days
\* are min(3, m) of the m strictly positive days, none below an unselected
\* positive day; a day of PnL 0 is in neither.
C8_ExtremumSelection ==
    \A s \in DoneSessions :
        LET losses == view[s].significant_losses[1]
            gains  == view[s].significant_gains[1]
        IN /\ SelectsFrom(losses, NegativeDays(s), Min(TopK, Cardinality(NegativeDays(s))))
           /\ \A r \in Range(losses) : \A u \in NegativeDays(s) \ Range(losses) : r.Closed_PnL <= u.Closed_PnL
           /\ SelectsFrom(gains, PositiveDays(s), Min(TopK, Cardinality(PositiveDays(s))))
           /\ \A r \in Range(gains) : \A u \in PositiveDays(s) \ Range(gains) : r.Closed_PnL >= u.Closed_PnL
           /\ \A r \in Range(losses) \cup Range(gains) : r.Closed_PnL /= 0

\* C8 witness: more than three negative days in range, not all of the same
\* PnL, and a selection made.
C8_Witness ==
    \E s \in DoneSessions :
        /\ Cardinality(NegativeDays(s)) > TopK
        /\ \E r, u \in NegativeDays(s) : r.Closed_PnL < u.Closed_PnL

\* The other cases of C8 happen too: a day of PnL 0 in range and, before
\* 2024-11-21, a day below every selected loss.
C8_ZeroAndEarlyDayReached ==
    \E s \in DoneSessions :
        /\ \E r \in InRange(s) : r.Closed_PnL = 0
        /\ view[s].significant_losses[1] /= <<>>
        /\ view[s].significant_gains[1] /= <<>>
        /\ \E e \in Range(view[s].daily_overview[1]) \ InRange(s) :
              \A r \in Range(view[s].significant_losses[1]) : e.Closed_PnL < r.Closed_PnL

\* C9: no date is selected both as a loss day and as a gain day, and the
\* overlap check reports nothing.
C9_ExtremumDisjoint ==
    \A s \in DoneSessions :
        /\ dates_of(view[s].significant_losses[1]) \cap dates_of(view[s].significant_gains[1]) = {}
        /\ OverlapMessage \notin Range(view[s].errors)

\* C9 witness: both selections list two days or more.
C9_Witness ==
    \E s \in DoneSessions :
        /\ Len(view[s].significant_losses[1]) >= 2
        /\ Len(view[s].significant_gains[1]) >= 2

Ascending(seq) == \A i, j \in 1..Len(seq) : i < j => seq[i].Closed_PnL <= seq[j].Closed_PnL

Descending(seq) == \A i, j \in 1..Len(seq) : i < j => seq[i].Closed_PnL >= seq[j].Closed_PnL

DateAscending(seq) == \A i, j \in 1..Len(seq) : i < j => seq[i].date_match < seq[j].date_match

\* C11: with three or more negative days in range, the three loss rows shown
\* are in ascending date order whatever their PnL; likewise the three gain
\* rows with three or more positive days.
C11_FullKDateOrder ==
    \A s \in DoneSessions :
        /\ Cardinality(NegativeDays(s)) >= TopK =>
              /\ Len(view[s].significant_losses[1]) = TopK
              /\ DateAscending(view[s].significant_losses[1])
        /\ Cardinality(PositiveDays(s)) >= TopK =>
              /\ Len(view[s].significant_gains[1]) = TopK
              /\ DateAscending(view[s].significant_gains[1])

\* C11 witness: four negative days, and among the three shown the PnL neither
\* rises nor falls with the date.
C11_Witness ==
    \E s \in DoneSessions :
        LET losses == view[s].significant_losses[1]
        IN /\ Cardinality(NegativeDays(s)) > TopK
           /\ Len(losses) = TopK
           /\ losses[1].Closed_PnL > losses[2].Closed_PnL
           /\ losses[2].Closed_PnL < losses[3].Closed_PnL

\* The gain side of C11 happens too: three positive days shown, the latest of
\* them the largest but the earliest not the smallest.
C11_GainsReached ==
    \E s \in DoneSessions :
        LET gains == view[s].significant_gains[1]
        IN /\ Cardinality(PositiveDays(s)) > TopK
           /\ Len(gains) = TopK
           /\ gains[1].Closed_PnL > gains[2].Closed_PnL
           /\ gains[2].Closed_PnL < gains[3].Closed_PnL

\* C19: a day left out of the three losses (gains) although its PnL equals
\* that of a selected day is later than that selected day: ties at the
\* selection boundary go to the earlier dates.
C19_TieByDate ==
    \A s \in DoneSessions :
        /\ \A r \in Range(view[s].significant_losses[1]) :
           \A u \in NegativeDays(s) \ Range(view[s].significant_losses[1]) :
               r.Closed_PnL = u.Closed_PnL => r.date_match < u.date_match
        /\ \A r \in Range(view[s].significant_gains[1]) :
           \A u \in PositiveDays(s) \ Range(view[s].significant_gains[1]) :
               r.Closed_PnL = u.Closed_PnL => r.date_match < u.date_match

\* C19 witness: four negative days, the third and fourth lowest of equal PnL,
\* one of them selected and the other not, with a lower day dated after both.
C19_Witness ==
    \E s \in DoneSessions :
        \E r \in Range(view[s].significant_losses[1]) :
        \E u \in NegativeDays(s) \ Range(view[s].significant_losses[1]) :
        \E l \in Range(view[s].significant_losses[1]) :
            /\ r.Closed_PnL = u.Closed_PnL
            /\ l.Closed_PnL < r.Closed_PnL
            /\ l.date_match > u.date_match

\* C15: every row of the enriched table has a trade date and a sentiment
\* date; none pairs a trade without date with a sentiment row without date.
C15_EnrichedInvariant ==
    Loaded =>
        \A r \in Range(EnrichedDf) :
            /\ NotNull(r.date_match)
            /\ NotNull(r.date_obj)
            /\ ~(IsNull(r.date_match) /\ IsNull(r.date_obj))

\* C14: once load_data has run, every trade whose 'Timestamp IST' the format
\* rejects has a null timestamp and a null hour, weekday name, month number,
\* month name and year-month bucket.
C14_ParseLeniency ==
    (Loaded /\ BothPresent) =>
        \A r \in Range(hist_df_of(hist_file)) :
            IsNull(to_datetime(r.Timestamp_IST)) =>
                /\ IsNull(r.dt)
                /\ IsNull(r.hour)
                /\ IsNull(r.day_of_week)
                /\ IsNull(r.month)
                /\ IsNull(r.month_name)
                /\ IsNull(r.year_month)

\* The sum of Closed PnL over the rows of the table at the positions in I.
RECURSIVE SumOver(_, _)
SumOver(rows, I) ==
    IF I = {} THEN 0
    ELSE LET i == CHOOSE x \in I : TRUE
         IN rows[i].Closed_PnL + SumOver(rows, I \ {i})

\* out, with its key, sum and count given by the three operators, is the
\* grouping of input on the nullable key by(r): one row per distinct non-null
\* key of the input, each with the sum and the number of exactly the rows of
\* that key, the counts adding up to the number of rows that have a key.
IsGrouping(input, by(_), out, KeyOf(_), SumOf(_), CountOf(_)) ==
    LET keyed      == {i \in 1..Len(input) : NotNull(by(input[i]))}
        keys       == {by(input[i])[1] : i \in keyed}
        members(k) == {i \in keyed : by(input[i]) = <<k>>}
    IN /\ Len(out) = Cardinality(keys)
       /\ {KeyOf(out[j]) : j \in 1..Len(out)} = keys
       /\ \A j \in 1..Len(out) :
             /\ SumOf(out[j]) = SumOver(input, members(KeyOf(out[j])))
             /\ CountOf(out[j]) = Cardinality(members(KeyOf(out[j])))
       /\ SumSeq([j \in 1..Len(out) |-> CountOf(out[j])]) = Cardinality(keyed)

IsGroupStats(input, by(_), out) ==
    IsGrouping(input, by, out, LAMBDA g : g.key, LAMBDA g : g.Total_PnL, LAMBDA g : g.Trade_Count)

ScenarioTable(s) ==
    /\ Len(view[s].daily_overview[1]) = 3
    /\ \A i \in 1..3 :
          \E r \in Range(view[s].daily_overview[1]) :
              /\ r.date_match = ScenarioDays[i] * MinutesPerDay
              /\ r.Closed_PnL = ScenarioPnL[i]
              /\ r.classification = ScenarioClasses[i]

\* C13 as claimed: in the election scenario the daily overview has the three
\* rows, the first gain selected is the 2024-11-13 row and the first loss
\* selected the 2024-12-05 row.
C13_ScenarioAsClaimed ==
    \A s \in DoneSessions :
        /\ ScenarioTable(s)
        /\ view[s].significant_gains[1] /= <<>>
        /\ \E r \in Range(view[s].significant_gains[1]) :
              /\ r.date_match = ScenarioDays[2] * MinutesPerDay
              /\ \A u \in Range(view[s].significant_gains[1]) : u.Closed_PnL <= r.Closed_PnL
        /\ view[s].significant_losses[1] /= <<>>
        /\ view[s].significant_losses[1][1].date_match = ScenarioDays[3] * MinutesPerDay

\* C13 amended: in the election scenario the daily overview has the three
\* rows; the selector looks at the days from 2024-11-21 on only, so the one
\* loss selected is the 2024-12-05 row and no gain is selected.
C13_ScenarioInRange ==
    \A s \in DoneSessions :
        /\ ScenarioTable(s)
        /\ view[s].significant_gains[1] = <<>>
        /\ Len(view[s].significant_losses[1]) = 1
        /\ view[s].significant_losses[1][1].date_match = ScenarioDays[3] * MinutesPerDay
        /\ view[s].significant_losses[1][1].Closed_PnL = ScenarioPnL[3]

\* C13 witness: the scenario has run to its end from a trade log that lists
\* the 2024-11-13 trades in two lines around the 2024-12-05 one.
C13_Witness ==
    \E s \in DoneSessions :
        /\ Len(hist_file.rows) = 4
        /\ hist_file.rows[1].Timestamp_IST[1] = ScenarioDays[2]
        /\ hist_file.rows[2].Timestamp_IST[1] = ScenarioDays[3]
        /\ hist_file.rows[3].Timestamp_IST[1] = ScenarioDays[2]
        /\ view[s].significant_losses[1] /= <<>>
        /\ \E r \in Range(view[s].daily_overview[1]) : r.Closed_PnL = ScenarioPnL[2]

\* A win rate over n rows: never the outcome of a division by zero, and 0
\* when there are no rows.
Guarded(rate, n) == rate /= DivisionFault /\ (n = 0 => rate = Zero)

C16_EmptyScenarioReached ==
    \E s \in DoneSessions : NotNull(view[s].what_if) /\ view[s].what_if[1].scenario_trades = 0

\* C17: the filtered view a session holds is, rows and columns, what the
\* filter produced from the enriched table, and the enriched table is what
\* load_data returned, whatever has been computed from them since.
C17_ReadOnlySource ==
    \A s \in Sessions :
        NotNull(view[s].df_filtered) =>
            /\ EnrichedDf = load_data(hist_file, fg_file).df
            /\ view[s].df_filtered[1] = df_filtered_of(EnrichedDf, selected[s])

\* The columns the holding-time block of load_data adds.
HoldingColumns == {"entry_dt", "exit_dt", "holding_time_minutes", "trade_duration_category"}

\* The lines of the holding-time section of the script.
InHoldingSection(line) == 1035 <= line /\ line <= 1219

\* C20: when the trade log lacks 'Entry Time' or 'Exit Time', no row of the
\* enriched table has a holding-time or duration-category column, no
\* execution shows bucket or category statistics, adds a bucket column or
\* ends on an exception of the holding-time section, and an execution that
\* reaches the end of the script has shown every other view.
C20_CapabilityDetection ==
    (Loaded /\ BothPresent /\ ~({"Entry Time", "Exit Time"} \subseteq hist_file.columns)) =>
        /\ \A r \in Range(EnrichedDf) : DOMAIN r \cap HoldingColumns = {}
        /\ \A s \in DoneSessions :
              LET v == view[s]
              IN /\ IsNull(v.hold_stats) /\ IsNull(v.category_stats)
                 /\ \A r \in Range(v.df_filtered[1]) : "hold_bucket" \notin DOMAIN r
                 /\ NotNull(v.fault) => ~InHoldingSection(v.fault[1])
                 /\ IsNull(v.fault) =>
                       /\ NotNull(v.win_stats) /\ NotNull(v.win_rate_by_sentiment)
                       /\ NotNull(v.hourly_stats) /\ NotNull(v.daily_stats)
                       /\ NotNull(v.monthly_stats) /\ NotNull(v.what_if)

\* C20 witness: a log without 'Exit Time' only, an execution that reached the
\* end of the script and showed the hourly table of two trades.
C20_Witness ==
    \E s \in DoneSessions :
        /\ "Entry Time" \in hist_file.columns
        /\ "Exit Time" \notin hist_file.columns
        /\ IsNull(view[s].fault)
        /\ NotNull(view[s].hourly_stats)
        /\ Len(EnrichedDf) = 2

\* With both columns the section runs: bucket and category statistics are
\* shown.
C20_SectionRunsWithColumns ==
    \E s \in DoneSessions : NotNull(view[s].hold_stats) /\ NotNull(view[s].category_stats)

\* The sentiment rows the enriched table pairs with the trades whose
\* 'Timestamp IST' cell is ts.
Partners(ts) ==
    {[date |-> r.date, classification |-> r.classification] :
        r \in {x \in Range(EnrichedDf) : x.Timestamp_IST = ts}}

\* C21 as claimed: the join key of every enriched trade is the day of its
\* entry timestamp, the 'Entry Time' cell.
C21_DateOfEntryTime ==
    \A r \in HoldingRows : r.date_match = normalize(r.entry_dt)

\* C21 amended: the join key of every trade of the log is the day of its
\* 'Timestamp IST' cell at midnight, null when the cell does not parse, and
\* two trades with the same join key are paired with the same sentiment
\* rows, whatever their times of day and their entry times.
C21_DateOfTimestamp ==
    (Loaded /\ BothPresent) =>
        LET hist_df == hist_df_of(hist_file)
        IN /\ \A t \in Range(hist_df) :
                 t.date_match = IF IsNull(to_datetime(t.Timestamp_IST)) THEN NaT
                                ELSE <<t.Timestamp_IST[1] * MinutesPerDay>>
           /\ \A t, u \in Range(hist_df) :
                 t.date_match = u.date_match => Partners(t.Timestamp_IST) = Partners(u.Timestamp_IST)
           /\ \A r \in Range(EnrichedDf) : r.date_match = r.date_obj

\* C21 witness: two enriched trades of one day at different times of day,
\* paired with the same sentiment row, and a trade entered on another day
\* than the one it is joined on.
C21_Witness ==
    /\ Loaded
    /\ \E a, b \in Range(EnrichedDf) :
          /\ NotNull(a.date_match) /\ a.date_match = b.date_match
          /\ a.dt /= b.dt
          /\ a.date = b.date
    /\ \E r \in HoldingRows :
          NotNull(r.entry_dt) /\ NotNull(r.date_match) /\ r.date_match /= normalize(r.entry_dt)

\* The place of a weekday in the calendar week and of a duration category in
\* the order of durations.
CalendarRank ==
    [Monday |-> 1, Tuesday |-> 2, Wednesday |-> 3, Thursday |-> 4, Friday |-> 5, Saturday |-> 6, Sunday |-> 7]

DurationRank(category) ==
    CASE category = "Scalp (<1h)"       -> 1
      [] category = "Day Trade (1-24h)" -> 2
      [] category = "Swing (1-7d)"      -> 3
      [] category = "Position (1-4w)"   -> 4
      [] category = "Long-term (>1m)"   -> 5
      [] category = "Unknown"           -> 6

\* Every row of out carries the sum and the count of the input rows that have
\* its key in the column.
KeepsOwnStatistics(input, column, out) ==
    \A g \in Range(out) :
        LET members == {i \in 1..Len(input) : cell(input[i], column) = <<g.key>>}
        IN g.Total_PnL = SumOver(input, members) /\ g.Trade_Count = Cardinality(members)

\* C22: the weekday table lists its rows from Monday to Sunday and the
\* duration-category table from Scalp to Unknown, each row with the
\* statistics of its own key.
C22_DisplayOrder ==
    \A s \in Sessions :
        LET v     == view[s]
            input == Map(v.df_filtered[1], LoadedColumns)
        IN /\ NotNull(v.daily_stats) =>
                 /\ \A i, j \in 1..Len(v.daily_stats[1]) :
                       i < j => CalendarRank[v.daily_stats[1][i].key] < CalendarRank[v.daily_stats[1][j].key]
                 /\ KeepsOwnStatistics(input, "day_of_week", v.daily_stats[1])
           /\ NotNull(v.category_stats) =>
                 /\ \A i, j \in 1..Len(v.category_stats[1]) :
                       i < j => DurationRank(v.category_stats[1][i].key) < DurationRank(v.category_stats[1][j].key)
                 /\ KeepsOwnStatistics(input, "trade_duration_category", v.category_stats[1])
                 /\ \A g \in Range(v.category_stats[1]) :
                       g.Win_Rate = win_rate_of(SelectSeq(input, LAMBDA r : r.trade_duration_category = g.key))

\* C22 witness: a log whose first trade is of a Friday and a day trade, its
\* second of a Thursday and a scalp, with different PnL: the tables list
\* Thursday before Friday and Scalp before Day Trade, against both the
\* lexical order and the order of first appearance.
C22_Witness ==
    \E s \in DoneSessions :
        LET v == view[s]
        IN /\ NotNull(v.category_stats)
           /\ Len(v.daily_stats[1]) = 2
           /\ v.daily_stats[1][1].key = "Thursday" /\ v.daily_stats[1][2].key = "Friday"
           /\ v.df_filtered[1][1].day_of_week = <<"Friday">>
           /\ v.daily_stats[1][1].Total_PnL /= v.daily_stats[1][2].Total_PnL
           /\ Len(v.category_stats[1]) >= 2
           /\ v.category_stats[1][1].key = "Scalp (<1h)" /\ v.category_stats[1][2].key = "Day Trade (1-24h)"
           /\ v.df_filtered[1][1].trade_duration_category = "Day Trade (1-24h)"
           /\ v.category_stats[1][1].Total_PnL /= v.category_stats[1][2].Total_PnL

\* C24: the loss days and the gain days a session is shown are listed from
\* the oldest to the newest, however many there are.
C24_AlwaysChronological ==
    \A s \in DoneSessions :
        /\ DateAscending(view[s].significant_losses[1])
        /\ DateAscending(view[s].significant_gains[1])

\* The strategy simulator's comparison on session s's screen, when it has one.
Comparisons(s) ==
    IF NotNull(view[s].what_if) /\ NotNull(view[s].what_if[1].metrics)
    THEN {view[s].what_if[1].metrics[1]}
    ELSE {}

\* C25: when the actual total PnL is 0, the percentage the simulator quotes
\* for a scenario with trades is 0.
C25_DegenerateDenominator ==
    \A s \in Sessions : \A m \in Comparisons(s) : m.actual_total = 0 => m.percent = Zero

\* C30: the simulator calls a scenario with trades more profitable exactly
\* when its total is above the actual total, and less profitable only when
\* its total is below it.
C30_Verdict ==
    \A s \in Sessions : \A m \in Comparisons(s) :
        /\ m.verdict = "MORE profitable" <=> m.scenario_total > m.actual_total
        /\ m.verdict = "LESS profitable" => m.scenario_total < m.actual_total

\* The rows on session s's screen that carry both holding-time classifications
\* and a holding time of zero or more.
Bucketed(s) ==
    IF NotNull(view[s].df_filtered)
    THEN {r \in Range(view[s].df_filtered[1]) :
            /\ "hold_bucket" \in DOMAIN r
            /\ NotNull(r.holding_time_minutes)
            /\ r.holding_time_minutes[1] >= 0}
    ELSE {}

\* C29: a trade with a non-null, non-negative holding time is in the '<1h'
\* hold bucket exactly when its trade_duration_category is 'Scalp (<1h)'.
C29_ClassifiersAgree ==
    \A s \in Sessions : \A r \in Bucketed(s) :
        r.hold_bucket = <<"<1h">> <=> r.trade_duration_category = "Scalp (<1h)"

\* Lines 588-1219: the sections whose views are computed from df_filtered.
InFilteredViews(line) == 588 <= line /\ line <= 1219

\* C26: whatever the sentiment filter selects, the empty selection included,
\* no execution ends on an exception inside the filtered views.
C26_FilteredViewsComplete ==
    \A s \in DoneSessions : NotNull(view[s].fault) => ~InFilteredViews(view[s].fault[1])

\* The days of the daily overview on session s's screen that lie after day d
\* and closed with a positive total.
LaterProfits(s, d) ==
    {r.date_match : r \in {x \in Range(view[s].daily_overview[1]) : x.date_match > d /\ x.Closed_PnL > 0}}

\* The top-loss rows on session s's screen that have a later profitable day,
\* in the order of the list.
Recovering(s) == SelectSeq(view[s].significant_losses[1], LAMBDA r : LaterProfits(s, r.date_match) /= {})

\* The number of days from day d to the earliest later profitable day.
RecoveryDays(s, d) ==
    (CHOOSE p \in LaterProfits(s, d) : \A q \in LaterProfits(s, d) : p <= q) - d

\* C28: each top-loss day with a later profitable day contributes the number
\* of days to the earliest such day, which is at least 1; the other loss days
\* contribute nothing; the average is the mean of the contributions, or 0
\* when there are none.
C28_RecoveryTime ==
    \A s \in DoneSessions :
        NotNull(view[s].recovery) =>
            LET rec == view[s].recovery[1]
                exp == Recovering(s)
            IN /\ Len(rec.recovery_times) = Len(exp)
               /\ \A i \in 1..Len(exp) :
                     /\ rec.recovery_times[i] * MinutesPerDay = RecoveryDays(s, exp[i].date_match)
                     /\ rec.recovery_times[i] >= 1
               /\ rec.avg_recovery = (IF Len(exp) = 0 THEN Zero
                                      ELSE Frac(SumSeq(rec.recovery_times), Len(exp)))

\* Two top-loss days recover at different distances, and a third never does.
C28_Witness ==
    \E s \in DoneSessions :
        /\ NotNull(view[s].recovery)
        /\ Len(view[s].significant_losses[1]) > Len(view[s].recovery[1].recovery_times)
        /\ \E i, j \in 1..Len(view[s].recovery[1].recovery_times) :
              view[s].recovery[1].recovery_times[i] > view[s].recovery[1].recovery_times[j]

\* No top-loss day recovers and the average is 0.
C28_NoRecovery ==
    \E s \in DoneSessions :
        /\ NotNull(view[s].recovery)
        /\ view[s].significant_losses[1] /= <<>>
        /\ view[s].recovery[1].recovery_times = <<>>
        /\ view[s].recovery[1].avg_recovery = Zero

\* What session s shows of the views that do not depend on the filter.
Unfiltered(s) ==
    [daily_overview     |-> view[s].daily_overview,
     daily_election     |-> view[s].daily_election,
     significant_losses |-> view[s].significant_losses,
     significant_gains  |-> view[s].significant_gains,
     recovery           |-> view[s].recovery]

\* The rows of the enriched table that have a date.
DatedRows == SelectSeq(EnrichedDf, LAMBDA r : NotNull(r.date_match))

\* C27: the daily overview, the election-period table, the top-3 losses and
\* gains, the recovery metrics and the actual side of the what-if comparison
\* are the same for every filter selection and cover the whole enriched table.
C27_FilterFrame ==
    /\ \A s, t \in DoneSessions :
          /\ Unfiltered(s) = Unfiltered(t)
          /\ \A m \in Comparisons(s) : \A n \in Comparisons(t) :
                m.actual_total = n.actual_total /\ m.actual_winrate = n.actual_winrate
    /\ \A s \in DoneSessions :
          /\ dates_of(view[s].daily_overview[1]) = {r.date_match[1] : r \in Range(DatedRows)}
          /\ SumSeq(PnLs(view[s].daily_overview[1])) = SumSeq(PnLs(DatedRows))
          /\ dates_of(view[s].daily_election[1]) =
                {d \in dates_of(view[s].daily_overview[1]) : election_start <= d /\ d <= election_end}
          /\ \A m \in Comparisons(s) : m.actual_total = SumSeq(PnLs(EnrichedDf))

\* Two sessions with different selections, one of them leaving trades out,
\* both showing an election table, a top loss, a recovery and the comparison.
C27_Witness ==
    \E s, t \in DoneSessions :
        /\ selected[s] /= selected[t]
        /\ Len(view[s].df_filtered[1]) < Len(EnrichedDf)
        /\ Len(view[t].df_filtered[1]) = Len(EnrichedDf)
        /\ Comparisons(s) /= {} /\ Comparisons(t) /= {}
        /\ view[s].daily_election[1] /= <<>>
        /\ view[s].significant_losses[1] /= <<>>
        /\ NotNull(view[s].recovery) /\ view[s].recovery[1].recovery_times /= <<>>

====
